---- MODULE Spec2Model ----
(***************************************************************************)
(* Model of the drift / cycle / main-sleep / prediction engine of the      *)
(* SleepChart component (src/src/components/sleep-chart.ts), and of the    *)
(* component's settings, data loading and re-rendering around it.          *)
(*                                                                         *)
(* Time is in milliseconds, as in the code (Date.getTime()), counted from  *)
(* a UTC midnight that stands for the first calendar day of the data.      *)
(* Non-integer numbers of the code (averages) are exact rationals          *)
(* [num, den] with den > 0.  The local time zone is a fixed offset.        *)
(***************************************************************************)
EXTENDS Integers, Sequences, FiniteSets, TLC

VARIABLES sleepData, dayStartHour, maxEntries, showPredictions,
          predictionDays, averagingDays, showSleepBlocks,
          infoBox, xAxis, sleepBlocks, trendLines,
          tz, dataFile, loading, call, earlier

\* The fields of the component that the engine reads.
fields == <<sleepData, dayStartHour, maxEntries, showPredictions,
            predictionDays, averagingDays, showSleepBlocks>>

\* The host: its time zone, the data file it serves and the state of the
\* request for it.
host == <<tz, dataFile, loading>>

config == <<fields, host>>

\* What the elements of the page show: a list that is empty until the
\* element is rendered and then holds the one record of what was rendered.
views == <<infoBox, xAxis, sleepBlocks, trendLines>>

vars == <<config, views, call, earlier>>

----------------------------------------------------------------------------
(* Program constants *)

HOURS_IN_DAY == 24 * 60 * 60 * 1000

HALF_DAY == 12 * 60 * 60 * 1000

DEFAULT_DRIFT == 30 * 60 * 1000

DEFAULT_RATING == 3

MINUTE_MS == 60000

HOUR_MS == 60 * 60 * 1000

----------------------------------------------------------------------------
(* Bounds of the model *)

MaxDay == 3

MaxLen == 3

MaxPredictionDays == 3

----------------------------------------------------------------------------
(* Arithmetic of the host language *)

\* JavaScript's % : the remainder takes the sign of the dividend.
JsRem(a, m) == IF a >= 0 THEN a % m ELSE 0 - ((0 - a) % m)

Abs(x) == IF x < 0 THEN 0 - x ELSE x

\* Math.round of the rational p/q (q > 0): floor(p/q + 1/2), halves go up.
MathRound(p, q) == (2 * p + q) \div (2 * q)

Rat(n, d) == [num |-> n, den |-> d]

----------------------------------------------------------------------------
(* Drift between two entries *)

\* The fold of a raw difference without the first normalisation step.
foldDriftNoNormalise(diff) ==
    LET m == JsRem(diff, HOURS_IN_DAY)
    IN  IF m > HALF_DAY THEN m - HOURS_IN_DAY ELSE m

\* The fold without the step that sends the upper half to the negative side.
foldDriftUnsigned(diff) ==
    JsRem(JsRem(diff, HOURS_IN_DAY) + HOURS_IN_DAY, HOURS_IN_DAY)

\* The fold with the 12h tie sent to the negative side.
foldDriftTieNegative(diff) ==
    LET m == JsRem(JsRem(diff, HOURS_IN_DAY) + HOURS_IN_DAY, HOURS_IN_DAY)
    IN  IF m >= HALF_DAY THEN m - HOURS_IN_DAY ELSE m

\* ((x % DAY) + DAY) % DAY, then minus a day when above 12h.
foldDrift(diff) ==
    LET m == JsRem(JsRem(diff, HOURS_IN_DAY) + HOURS_IN_DAY, HOURS_IN_DAY)
    IN  IF m > HALF_DAY THEN m - HOURS_IN_DAY ELSE m

calculateEntryDrift(prevEntry, currEntry) ==
    [sleepDrift |-> foldDrift(currEntry.sleep - prevEntry.sleep),
     wakeDrift  |-> foldDrift(currEntry.wake - prevEntry.wake)]

----------------------------------------------------------------------------
(* calculateDrift *)

\* Too few entries with the bound one lower: only the empty list.
notEnoughEntriesEmptyOnly(entries) == Len(entries) < 1

notEnoughEntries(entries) == Len(entries) < 2

\* The fallback with a drift of one hour a day.
defaultDriftOfAnHour ==
    [sleepDrift |-> Rat(HOUR_MS, 1),
     wakeDrift  |-> Rat(HOUR_MS, 1),
     avgRating  |-> Rat(DEFAULT_RATING, 1)]

defaultDrift ==
    [sleepDrift |-> Rat(DEFAULT_DRIFT, 1),
     wakeDrift  |-> Rat(DEFAULT_DRIFT, 1),
     avgRating  |-> Rat(DEFAULT_RATING, 1)]

\* The accumulators after the loop has handled the pairs (1,2) .. (i-1,i)
\* (1-based; the code's index runs from 1 to length-1, 0-based).
RECURSIVE driftLoop(_, _)
driftLoop(entries, i) ==
    IF i < 2
    THEN [totalSleepDrift |-> 0, totalWakeDrift |-> 0, totalRating |-> 0]
    ELSE LET acc == driftLoop(entries, i - 1)
             d   == calculateEntryDrift(entries[i - 1], entries[i])
         IN  [totalSleepDrift |-> acc.totalSleepDrift + d.sleepDrift,
              totalWakeDrift  |-> acc.totalWakeDrift + d.wakeDrift,
              totalRating     |-> acc.totalRating + entries[i].rating]

\* The divisor of the drift sums taken as the number of entries.
driftDivisorAllEntries(entries) == Len(entries)

driftDivisor(entries) == Len(entries) - 1

ratingDivisor(entries) == Len(entries)

calculateDrift(entries) ==
    IF notEnoughEntries(entries)
    THEN defaultDrift
    ELSE LET acc == driftLoop(entries, Len(entries))
         IN  [sleepDrift |-> Rat(acc.totalSleepDrift, driftDivisor(entries)),
              wakeDrift  |-> Rat(acc.totalWakeDrift, driftDivisor(entries)),
              avgRating  |-> Rat(acc.totalRating, ratingDivisor(entries))]

----------------------------------------------------------------------------
(* Cycle length (updateNon24Info) *)

\* The rounded quotient without Math.abs.
roundedQuotientSigned(adjustedDrift) ==
    LET p == IF adjustedDrift.num < 0
             THEN 0 - HOURS_IN_DAY * adjustedDrift.den
             ELSE HOURS_IN_DAY * adjustedDrift.den
    IN  MathRound(p, Abs(adjustedDrift.num))

\* Math.abs(Math.round(HOURS_IN_DAY / adjustedDrift)), adjustedDrift # 0.
roundedQuotient(adjustedDrift) ==
    LET p == IF adjustedDrift.num < 0
             THEN 0 - HOURS_IN_DAY * adjustedDrift.den
             ELSE HOURS_IN_DAY * adjustedDrift.den
    IN  Abs(MathRound(p, Abs(adjustedDrift.num)))

\* The threshold taken as one second instead of one minute.
noMeasurableDriftOneSecond(adjustedDrift) ==
    Abs(adjustedDrift.num) < 1000 * adjustedDrift.den

noMeasurableDrift(adjustedDrift) ==
    Abs(adjustedDrift.num) < MINUTE_MS * adjustedDrift.den

cycleLength(totalDrift) ==
    LET driftPerDay   == Rat(JsRem(totalDrift.num, HOURS_IN_DAY * totalDrift.den),
                             totalDrift.den)
        adjustedDrift == IF driftPerDay.num = 0 THEN totalDrift ELSE driftPerDay
    IN  IF noMeasurableDrift(adjustedDrift)
        THEN 0
        ELSE roundedQuotient(adjustedDrift)

----------------------------------------------------------------------------
(* Dates and clock times *)

\* new Date(s).toISOString().split('T')[0]: the UTC calendar day, as a number.
dateStr(t) == t \div HOURS_IN_DAY

\* Local wall-clock time of day, tz minutes ahead of UTC.
localMs(t) == (t + tz * MINUTE_MS) % HOURS_IN_DAY

getHours(t) == localMs(t) \div HOUR_MS

getMinutes(t) == (localMs(t) % HOUR_MS) \div MINUTE_MS

\* getHours() + getMinutes() / 60, in minutes instead of hours.
clockMinutes(t) == getHours(t) * 60 + getMinutes(t)

\* The clock subtraction without the overnight correction.
clockDurationNoWrap(entry) ==
    clockMinutes(entry.wake) - clockMinutes(entry.sleep)

\* The duration of the main-sleep loop, in minutes.
clockDuration(entry) ==
    LET sleepHour == clockMinutes(entry.sleep)
        wakeHour  == clockMinutes(entry.wake)
    IN  IF wakeHour < sleepHour
        THEN wakeHour + 24 * 60 - sleepHour
        ELSE wakeHour - sleepHour

\* wakeTime - sleepTime of updateNon24Info and generatePredictions.
sleepDuration(entry) == entry.wake - entry.sleep

----------------------------------------------------------------------------
(* getMainSleepEntries *)

\* The date of the wake timestamp.
recordDateOfWake(record) == dateStr(record.wake)

\* The Map key of a record: the date of its sleep timestamp.
recordDate(record) == dateStr(record.sleep)

\* The keys of the Map entriesByDay, in insertion (first occurrence) order.
RECURSIVE dayKeys(_)
dayKeys(data) ==
    IF data = <<>>
    THEN <<>>
    ELSE LET front == dayKeys(SubSeq(data, 1, Len(data) - 1))
             d     == recordDate(data[Len(data)])
         IN  IF \E k \in 1..Len(front) : front[k] = d
             THEN front
             ELSE Append(front, d)

\* entriesByDay.get(date): the records sleeping on that date, in data order.
entriesOfDay(data, date) ==
    SelectSeq(data, LAMBDA r : recordDate(r) = date)

\* State of the search after the first i entries of the day.
RECURSIVE longestLoop(_, _)
longestLoop(entries, i) ==
    IF i = 0
    THEN [longestDuration |-> 0, longestEntry |-> entries[1]]
    ELSE LET acc      == longestLoop(entries, i - 1)
             duration == clockDuration(entries[i])
         IN  IF duration > acc.longestDuration
             THEN [longestDuration |-> duration, longestEntry |-> entries[i]]
             ELSE acc

\* The main sleep taken as the day's first record.
mainSleepOfFirst(entries) == entries[1]

\* The main sleep of one day's (non-empty) list of entries.
mainSleepOf(entries) ==
    IF Len(entries) = 1
    THEN entries[1]
    ELSE longestLoop(entries, Len(entries)).longestEntry

\* Array.prototype.sort with (a, b) => a.sleep - b.sleep; the sort is stable.
RECURSIVE insertSorted(_, _)
insertSorted(sorted, e) ==
    IF sorted = <<>>
    THEN <<e>>
    ELSE IF sorted[Len(sorted)].sleep <= e.sleep
         THEN Append(sorted, e)
         ELSE Append(insertSorted(SubSeq(sorted, 1, Len(sorted) - 1), e),
                     sorted[Len(sorted)])

RECURSIVE sortBySleep(_)
sortBySleep(entries) ==
    IF entries = <<>>
    THEN <<>>
    ELSE insertSorted(sortBySleep(SubSeq(entries, 1, Len(entries) - 1)),
                      entries[Len(entries)])

\* The window taken from the front of the list.
sliceFirst(s, n) ==
    IF n >= Len(s) THEN s ELSE SubSeq(s, 1, n)

\* slice(-n) for n >= 1.
sliceLast(s, n) ==
    IF n >= Len(s) THEN s ELSE SubSeq(s, Len(s) - n + 1, Len(s))

\* The main sleeps of all days, in Map order, before sorting.
mainSleepsByDay(data) ==
    LET keys == dayKeys(data)
    IN  [k \in 1..Len(keys) |-> mainSleepOf(entriesOfDay(data, keys[k]))]

\* The component: the values of its fields.
This ==
    [sleepData       |-> sleepData,
     dayStartHour    |-> dayStartHour,
     maxEntries      |-> maxEntries,
     showPredictions |-> showPredictions,
     predictionDays  |-> predictionDays,
     averagingDays   |-> averagingDays,
     showSleepBlocks |-> showSleepBlocks]

\* entriesToUse: the sorted main sleeps limited to the averaging days.
entriesToUse(this, mainSleepEntries) ==
    LET uniqueDatesCount ==
            Cardinality({recordDate(mainSleepEntries[k]) :
                             k \in 1..Len(mainSleepEntries)})
    IN  IF this.averagingDays < uniqueDatesCount
           /\ Len(mainSleepEntries) > this.averagingDays
        THEN sliceLast(mainSleepEntries, this.averagingDays)
        ELSE mainSleepEntries

getMainSleepEntries(this, data) ==
    entriesToUse(this, sortBySleep(mainSleepsByDay(data)))

----------------------------------------------------------------------------
(* Average sleep per day (updateNon24Info) *)

RECURSIVE totalSleepTime(_)
totalSleepTime(data) ==
    IF data = <<>>
    THEN 0
    ELSE totalSleepTime(SubSeq(data, 1, Len(data) - 1))
             + sleepDuration(data[Len(data)])

\* The days from the earliest to the latest date of the data, empty ones
\* included.
dayCountOfSpan(data) ==
    LET dates == {recordDate(data[i]) : i \in 1..Len(data)}
    IN  IF dates = {}
        THEN 0
        ELSE 1 + (CHOOSE d \in dates : \A e \in dates : e <= d)
               - (CHOOSE d \in dates : \A e \in dates : d <= e)

\* dayCount after the loop over the Map: the number of its keys.
dayCount(data) == Len(dayKeys(data))

\* totalSleepTimeAllDays / dayCount; the denominator 0 stands for NaN.
averageSleepPerDay(data) ==
    Rat(totalSleepTime(data), dayCount(data))

----------------------------------------------------------------------------
(* The visible window *)

\* The window taken from the front of the record list.
displayedDataFromFront(this) ==
    IF this.maxEntries > 0 /\ Len(this.sleepData) > this.maxEntries
    THEN SubSeq(this.sleepData, 1, this.maxEntries)
    ELSE this.sleepData

\* displayedData of updateNon24Info.
displayedData(this) ==
    IF this.maxEntries > 0 /\ Len(this.sleepData) > this.maxEntries
    THEN sliceLast(this.sleepData, this.maxEntries)
    ELSE this.sleepData

\* visibleData of updateNon24Info.
visibleData(this) ==
    IF this.maxEntries > 0 /\ Len(this.sleepData) > this.maxEntries
    THEN sliceLast(this.sleepData, this.maxEntries)
    ELSE this.sleepData

\* displayedData of generatePredictions.
displayedDataOfPredictions(this) ==
    IF this.maxEntries > 0 /\ Len(this.sleepData) > this.maxEntries
    THEN sliceLast(this.sleepData, this.maxEntries)
    ELSE this.sleepData

\* filteredData of renderTrendLines.
filteredDataOfTrendLines(this) ==
    IF this.maxEntries > 0
    THEN sliceLast(this.sleepData, this.maxEntries)
    ELSE this.sleepData

\* filteredData of renderXAxis.
filteredDataOfXAxis(this) ==
    IF this.maxEntries > 0
    THEN sliceLast(this.sleepData, this.maxEntries)
    ELSE this.sleepData

\* filteredData of renderSleepBlocks.
filteredData(this) ==
    IF this.maxEntries > 0
    THEN sliceLast(this.sleepData, this.maxEntries)
    ELSE this.sleepData

----------------------------------------------------------------------------
(* generatePredictions *)

\* Date.prototype.setHours(h) and setMinutes(m) in a zone of fixed offset:
\* the local date and the other fields of the time stay.
setHours(t, h) == t + (h - getHours(t)) * HOUR_MS

setMinutes(t, m) == t + (m - getMinutes(t)) * MINUTE_MS

\* The time value of new Date(x) and setTime(x) for the number x = p / q:
\* the fraction of a millisecond is dropped.  Every time of the model is
\* after the epoch, where dropping the fraction is the floor.
timeValue(p, q) == p \div q

\* The guard of generatePredictions asking for two records.
noPredictionsOfOneRecord(this) ==
    Len(this.sleepData) < 2 \/ ~this.showPredictions \/ this.predictionDays = 0

noPredictions(this) ==
    Len(this.sleepData) = 0 \/ ~this.showPredictions \/ this.predictionDays = 0

\* The duration of the last entry alone.
avgSleepDurationOfLast(entries) ==
    Rat(sleepDuration(entries[Len(entries)]), 1)

\* totalSleepDuration / displayedMainSleepEntries.length.
avgSleepDuration(entries) ==
    Rat(totalSleepTime(entries), Len(entries))

\* The hour of the pattern taken from the start of the chart's day.
lastSleepHourOfDayStart(this, lastVisibleEntry) == this.dayStartHour

\* lastSleepHour: the local hour of the last visible main sleep.
lastSleepHour(this, lastVisibleEntry) == getHours(lastVisibleEntry.sleep)

\* The values generatePredictions computes before its loop, from the main
\* sleeps of the displayed records.
predictionSetupOf(this, displayedMainSleepEntries) ==
    LET lastVisibleEntry ==
            displayedMainSleepEntries[Len(displayedMainSleepEntries)]
    IN  [visibleDriftData |-> calculateDrift(displayedMainSleepEntries),
         avgSleepDuration |-> avgSleepDuration(displayedMainSleepEntries),
         lastWakeTime     |-> lastVisibleEntry.wake,
         lastSleepHour    |-> lastSleepHour(this, lastVisibleEntry),
         lastSleepMinute  |-> getMinutes(lastVisibleEntry.sleep)]

predictionSetup(this) ==
    predictionSetupOf(this,
        getMainSleepEntries(this, displayedDataOfPredictions(this)))

\* The drift of one day added at every iteration.
nextWakeTimeDriftOnce(setup, prevWakeTime, i) ==
    LET nextDate == prevWakeTime + HOURS_IN_DAY
        pattern  == setMinutes(setHours(nextDate, setup.lastSleepHour),
                               setup.lastSleepMinute)
    IN  pattern + timeValue(setup.visibleDriftData.sleepDrift.num,
                            setup.visibleDriftData.sleepDrift.den)

\* nextWakeTime of iteration i (from 0) of the loop.
nextWakeTime(setup, prevWakeTime, i) ==
    LET nextDate == prevWakeTime + HOURS_IN_DAY
        pattern  == setMinutes(setHours(nextDate, setup.lastSleepHour),
                               setup.lastSleepMinute)
    IN  pattern + timeValue(setup.visibleDriftData.sleepDrift.num * (i + 1),
                            setup.visibleDriftData.sleepDrift.den)

predictedRating(avgRating) == MathRound(avgRating.num, avgRating.den)

predictedEntry(setup, wakeTime) ==
    [sleep       |-> wakeTime + timeValue(0 - setup.avgSleepDuration.num,
                                          setup.avgSleepDuration.den),
     wake        |-> wakeTime,
     rating      |-> predictedRating(setup.visibleDriftData.avgRating),
     note        |-> "Predicted entry",
     isPredicted |-> TRUE]

\* The array predictions after n iterations of the loop.
RECURSIVE predictionLoop(_, _)
predictionLoop(setup, n) ==
    IF n = 0
    THEN <<>>
    ELSE LET predictions  == predictionLoop(setup, n - 1)
             prevWakeTime == IF n = 1
                             THEN setup.lastWakeTime
                             ELSE predictions[n - 1].wake
         IN  Append(predictions,
                    predictedEntry(setup,
                                   nextWakeTime(setup, prevWakeTime, n - 1)))

\* The predictions listed from the last day to the first.
generatePredictionsNewestFirst(this) ==
    IF noPredictions(this)
    THEN <<>>
    ELSE IF Len(getMainSleepEntries(this, this.sleepData)) = 0
         THEN <<>>
         ELSE LET predictions ==
                      predictionLoop(predictionSetup(this), this.predictionDays)
              IN  [k \in 1..Len(predictions) |->
                       predictions[Len(predictions) + 1 - k]]

generatePredictions(this) ==
    IF noPredictions(this)
    THEN <<>>
    ELSE IF Len(getMainSleepEntries(this, this.sleepData)) = 0
         THEN <<>>
         ELSE predictionLoop(predictionSetup(this), this.predictionDays)

----------------------------------------------------------------------------
(* The info panel and the renderers *)

\* The figures of the info panel.
non24Info(this, allDriftData, displayedDriftData, displayed, visible) ==
    [totalDrift              |-> allDriftData.sleepDrift,
     visualizedDrift         |-> displayedDriftData.sleepDrift,
     cycleDays               |-> cycleLength(allDriftData.sleepDrift),
     avgSleepPerDayMs        |-> averageSleepPerDay(this.sleepData),
     avgSleepPerDayVisibleMs |-> averageSleepPerDay(visible),
     displayedData           |-> displayed,
     visibleData             |-> visible]

\* What updateNon24Info writes to the info box; nothing is written when
\* there are fewer than two records.
updateNon24Info(this) ==
    IF Len(this.sleepData) < 2
    THEN [written |-> FALSE, content |-> <<>>]
    ELSE [written |-> TRUE,
          content |->
              <<non24Info(this,
                    calculateDrift(getMainSleepEntries(this, this.sleepData)),
                    calculateDrift(getMainSleepEntries(this, displayedData(this))),
                    displayedData(this),
                    visibleData(this))>>]

\* predictedEntries of the renderers.
predictedEntries(this) ==
    IF this.showPredictions THEN generatePredictions(this) ELSE <<>>

\* What renderTrendLines draws; nothing with fewer than two records.
renderTrendLines(this) ==
    IF Len(this.sleepData) <= 1
    THEN [written |-> FALSE, content |-> <<>>]
    ELSE [written |-> TRUE,
          content |-> <<[filteredData     |-> filteredDataOfTrendLines(this),
                         predictedEntries |-> predictedEntries(this)]>>]

renderXAxis(this) ==
    IF Len(this.sleepData) = 0
    THEN [written |-> FALSE, content |-> <<>>]
    ELSE [written |-> TRUE,
          content |-> <<[filteredData     |-> filteredDataOfXAxis(this),
                         predictedEntries |-> predictedEntries(this)]>>]

\* What renderSleepBlocks leaves in the container of the blocks and the
\* trend lines: it is cleared, the trend lines are drawn, then the blocks
\* if they are shown.
renderSleepBlocks(this) ==
    IF Len(this.sleepData) = 0
    THEN [written |-> FALSE, sleepBlocks |-> <<>>, trendLines |-> <<>>]
    ELSE [written     |-> TRUE,
          sleepBlocks |-> IF this.showSleepBlocks
                          THEN <<[filteredData     |-> filteredData(this),
                                  predictedEntries |-> predictedEntries(this)]>>
                          ELSE <<>>,
          trendLines  |-> renderTrendLines(this).content]

\* What the three renderers leave in their elements.
Rendered(blocks, axis, lines) ==
    /\ sleepBlocks' = IF blocks.written THEN blocks.sleepBlocks ELSE sleepBlocks
    /\ xAxis' = IF axis.written THEN axis.content ELSE xAxis
    /\ trendLines' = IF lines.written
                     THEN lines.content
                     ELSE IF blocks.written
                          THEN blocks.trendLines
                          ELSE trendLines

\* renderSleepBlocks(); renderXAxis(); renderTrendLines() on the component
\* as the step leaves it.
Rerender(this) ==
    Rendered(renderSleepBlocks(this), renderXAxis(this), renderTrendLines(this))

\* this.updateNon24Info() after them.
InfoWritten(info) ==
    infoBox' = IF info.written THEN info.content ELSE infoBox

UpdateInfo(this) == InfoWritten(updateNon24Info(this))

----------------------------------------------------------------------------
(* Inputs of the function-level specification *)

Rec(day, clock, dur, rating) ==
    [sleep  |-> day * HOURS_IN_DAY + clock,
     wake   |-> day * HOURS_IN_DAY + clock + dur,
     rating |-> rating]

Clock(h, m, sec) == h * HOUR_MS + m * MINUTE_MS + sec * 1000

\* Offsets of the local zone from UTC, in minutes.
TimeZones == {0, 330}

AveragingChoices == {1, 2, 14}

Clocks ==
    {Clock(0, 0, 0), Clock(11, 0, 0), Clock(14, 24, 0), Clock(23, 0, 0),
     Clock(23, 0, 30), Clock(23, 1, 0), Clock(23, 30, 0)}

PairDurations == {8 * HOUR_MS, 24 * HOUR_MS + 30 * MINUTE_MS}

\* Records for calculateEntryDrift, taken in any order.
PairRecords ==
    {Rec(d, c, dur, 3) : d \in 0..MaxDay, c \in Clocks, dur \in PairDurations}

DriftClocks == {Clock(11, 0, 0), Clock(23, 0, 0), Clock(23, 30, 0)}

DriftRatings == {1, 4}

\* The k-th smallest element of a set of days.
RECURSIVE dayAt(_, _)
dayAt(days, k) ==
    LET least == CHOOSE d \in days : \A e \in days : d <= e
    IN  IF k = 1 THEN least ELSE dayAt(days \ {least}, k - 1)

DriftShapes == [clock : DriftClocks, dur : PairDurations, rating : DriftRatings]

\* A list as getMainSleepEntries returns it: one record per date, ascending.
sortedList(days, shapes) ==
    [k \in 1..Len(shapes) |->
         Rec(dayAt(days, k), shapes[k].clock, shapes[k].dur, shapes[k].rating)]

CycleClocks ==
    {Clock(0, 0, 0), Clock(14, 24, 0), Clock(23, 0, 0), Clock(23, 0, 30),
     Clock(23, 1, 0)}

\* One record per consecutive day, for the drifts given to the cycle length.
RECURSIVE ConsecutiveLists(_, _)
ConsecutiveLists(day, len) ==
    IF len = 0
    THEN {<<>>}
    ELSE {<<Rec(day, c, 8 * HOUR_MS, 3)>> \o rest :
              c \in CycleClocks, rest \in ConsecutiveLists(day + 1, len - 1)}

DriftInputs ==
    {calculateDrift(es).sleepDrift :
         es \in UNION {ConsecutiveLists(0, len) : len \in 2..MaxLen}}

DataDurations ==
    {1 * HOUR_MS, 2 * HOUR_MS, 8 * HOUR_MS, 26 * HOUR_MS,
     1 * HOUR_MS + 30 * 1000}

\* Records of a data file: several per day, listed in any order.  The first
\* day has naps and sleeps of every duration at two times of day, the second
\* day two records, the third day one.
DataRecords ==
    {Rec(0, c, dur, 3) : c \in {Clock(17, 0, 0), Clock(23, 0, 0)},
                         dur \in DataDurations}
    \cup {Rec(1, Clock(17, 0, 0), dur, 3) : dur \in {2 * HOUR_MS, 9 * HOUR_MS}}
    \cup {Rec(2, Clock(17, 0, 0), 7 * HOUR_MS, 3)}

\* Records of the files given to the component: a night and a nap on the
\* first day, a night on the second, a shorter night a minute later on the
\* third, with ratings from 1 to 5.
ChartRecords ==
    {Rec(0, Clock(23, 0, 0), 8 * HOUR_MS, 1),
     Rec(0, Clock(14, 0, 0), 1 * HOUR_MS, 5),
     Rec(1, Clock(23, 0, 0), 8 * HOUR_MS, 4),
     Rec(2, Clock(23, 1, 0), 7 * HOUR_MS, 5)}

\* No limit, and a limit that files of three records exceed.
MaxEntriesChoices == {0, 2}

\* Nights of 8 hours on consecutive days, the first falling asleep at the
\* given time of day and each one later by the given shift.
ShiftingNights(clock, shift, len) ==
    [k \in 1..len |-> Rec(k, clock + (k - 1) * shift, 8 * HOUR_MS, 3)]

ShiftClocks == {Clock(0, 40, 0), Clock(12, 0, 30), Clock(23, 0, 0)}

\* Shifts per day from the one nearest to -12h to +12h.
Shifts ==
    {0 - 11 * HOUR_MS, 0 - 30 * MINUTE_MS, 0, 30 * MINUTE_MS, 12 * HOUR_MS}

\* Five nights on consecutive days from the given day, falling asleep at
\* 23:00 local time in the given zone and 30 minutes later each day, each
\* waking 8 hours later.
DriftingNights(day, zone) ==
    [k \in 1..5 |->
         Rec(day + k - 1, Clock(23, 30 * (k - 1), 0) - zone * MINUTE_MS,
             8 * HOUR_MS, 3)]

\* The list started at its element k + 1, the first k moved to the end.
Rotated(s, k) == [i \in 1..Len(s) |-> s[((i + k - 1) % Len(s)) + 1]]

NightAt(day, clock, rating) == Rec(day, clock, 8 * HOUR_MS, rating)

\* The data files the host may serve: an empty one, one night, and two
\* days listed out of order with a nap.
DataFiles ==
    {<<>>,
     <<NightAt(0, Clock(23, 0, 0), 5)>>,
     <<NightAt(1, Clock(23, 20, 0), 4), Rec(0, Clock(14, 0, 0), 1 * HOUR_MS, 5),
       NightAt(0, Clock(23, 0, 0), 1)>>}

\* The numbers the controls pass to the setters, valid and invalid, whole
\* and not.
DayStartHourInputs == {Rat(0 - 1, 1), Rat(6, 1), Rat(13, 2), Rat(24, 1)}

MaxEntriesInputs == {Rat(0 - 1, 1), Rat(0, 1), Rat(2, 1), Rat(5, 2)}

PredictionDaysInputs ==
    {Rat(0 - 1, 1), Rat(0, 1), Rat(MaxPredictionDays, 1), Rat(3, 2)}

AveragingDaysInputs == {Rat(0, 1), Rat(1, 1), Rat(2, 1), Rat(3, 2)}

----------------------------------------------------------------------------
(* Function-level specification: the initial state holds the arguments of  *)
(* one call, the step applies the function to them.                        *)

Pending(fn, args) ==
    [fn |-> fn, args |-> args, done |-> FALSE, ret |-> <<>>, locals |-> {}]

Returned(ret, locals) ==
    [fn |-> call.fn, args |-> call.args, done |-> TRUE, ret |-> ret,
     locals |-> locals]

InitCall ==
    \/ \E p \in PairRecords, c \in PairRecords :
           call = Pending("calculateEntryDrift", <<p, c>>)
    \/ \E days \in SUBSET (0..MaxDay) :
           /\ Cardinality(days) <= MaxLen
           /\ \E shapes \in [1..Cardinality(days) -> DriftShapes] :
                  call = Pending("calculateDrift", sortedList(days, shapes))
    \/ \E d1 \in DriftInputs, d2 \in DriftInputs :
           call = Pending("cycleLength", <<d1, d2>>)
    \/ \E len \in 0..MaxLen : \E data \in [1..len -> DataRecords] :
           call = Pending("getMainSleepEntries", data)
    \/ \E len \in 2..MaxLen : \E data \in [1..len -> DataRecords] :
           call = Pending("averageSleepPerDay", data)

\* The calls whose result depends on the component's settings or the zone.
UsesSettings(c) == c.fn = "getMainSleepEntries"

\* A call of a pure function, in a component as constructed.
InitPureCall ==
    /\ sleepData = <<>>
    /\ dataFile = <<>>
    /\ loading = "pending"
    /\ maxEntries = 90
    /\ showPredictions = TRUE
    /\ predictionDays = 30
    /\ InitCall
    /\ averagingDays \in IF UsesSettings(call) THEN AveragingChoices ELSE {14}
    /\ tz \in IF UsesSettings(call) THEN TimeZones ELSE {0}

\* A call of a method that reads the fields of the component, which holds
\* a data file and settings the setters accept.
InitMethodCall ==
    /\ \E len \in 0..MaxLen :
           \/ sleepData \in [1..len -> ChartRecords]
           \/ \E clock \in ShiftClocks, shift \in Shifts :
                  sleepData = ShiftingNights(clock, shift, len)
    /\ dataFile = sleepData
    /\ loading = "loaded"
    /\ maxEntries \in MaxEntriesChoices
    /\ averagingDays \in AveragingChoices
    /\ \/ showPredictions = TRUE /\ predictionDays \in 0..MaxPredictionDays
       \/ showPredictions = FALSE /\ predictionDays = 30
    /\ tz \in TimeZones
    /\ call \in {Pending("generatePredictions", <<>>), Pending("refresh", <<>>)}

\* The number of records counted instead of the number of dates.
uniqueDatesSizeOfRecords(data) == Len(data)

\* uniqueDates.size of loadData.
uniqueDatesSize(data) == Cardinality({dateStr(data[i].sleep) : i \in 1..Len(data)})

\* The records of the response, sorted by sleep time.
responseJsonSorted(file) == sortBySleep(file)

\* await response.json(): the records of the file, in the order of the file.
responseJson(file) == file

\* The call of loadData in a component as constructed, none of its setters
\* called but for the number of days to predict, which the model keeps
\* within MaxPredictionDays.  The file holds the five drifting nights,
\* listed from any of them on.
InitLoadCall ==
    /\ tz \in TimeZones
    /\ \E day \in 0..MaxDay, k \in 0..4 :
           dataFile = Rotated(DriftingNights(day, tz), k)
    /\ sleepData = <<>>
    /\ loading = "pending"
    /\ maxEntries = 90
    /\ averagingDays = 14
    /\ showPredictions = TRUE
    /\ predictionDays \in 0..MaxPredictionDays
    /\ call = Pending("loadData", <<>>)

\* A call of a validating setter on a loaded component, with each number
\* the controls can pass.
SetterCalls ==
    {Pending("setDayStartHour", <<hour>>) : hour \in DayStartHourInputs}
        \cup {Pending("setMaxEntries", <<count>>) : count \in MaxEntriesInputs}
        \cup {Pending("setPredictionDays", <<days>>) :
                  days \in PredictionDaysInputs}
        \cup {Pending("setAveragingDays", <<days>>) :
                  days \in AveragingDaysInputs}

InitSetterCall ==
    /\ tz \in TimeZones
    /\ dataFile \in DataFiles
    /\ sleepData = responseJson(dataFile)
    /\ loading = "loaded"
    /\ maxEntries \in MaxEntriesChoices
    /\ averagingDays \in 1..2
    /\ showPredictions \in BOOLEAN
    /\ predictionDays \in {0, MaxPredictionDays}
    /\ call \in SetterCalls

InitFn ==
    /\ dayStartHour = 17
    /\ showSleepBlocks = TRUE
    /\ infoBox = <<>>
    /\ xAxis = <<>>
    /\ sleepBlocks = <<>>
    /\ trendLines = <<>>
    /\ earlier = <<>>
    /\ (InitPureCall \/ InitMethodCall \/ InitLoadCall \/ InitSetterCall)

FnCalculateEntryDrift ==
    /\ call.fn = "calculateEntryDrift" /\ ~call.done
    /\ call' = Returned(calculateEntryDrift(call.args[1], call.args[2]), {})
    /\ UNCHANGED <<config, views, earlier>>

FnCalculateDrift ==
    /\ call.fn = "calculateDrift" /\ ~call.done
    /\ call' = Returned(calculateDrift(call.args), {})
    /\ UNCHANGED <<config, views, earlier>>

\* The cycle length of the total drift of two data sets.
FnCycleLength ==
    /\ call.fn = "cycleLength" /\ ~call.done
    /\ call' = Returned(<<cycleLength(call.args[1]), cycleLength(call.args[2])>>,
                        {})
    /\ UNCHANGED <<config, views, earlier>>

\* The entries of days with several records: those the search loop visits.
loopEntries(data) ==
    {data[i] : i \in {j \in 1..Len(data) :
                          Len(entriesOfDay(data, recordDate(data[j]))) > 1}}

FnGetMainSleepEntries ==
    /\ call.fn = "getMainSleepEntries" /\ ~call.done
    /\ call' = Returned(getMainSleepEntries(This, call.args),
                        {<<e, clockDuration(e)>> : e \in loopEntries(call.args)})
    /\ UNCHANGED <<config, views, earlier>>

FnAverageSleepPerDay ==
    /\ call.fn = "averageSleepPerDay" /\ ~call.done
    /\ call' = Returned(averageSleepPerDay(call.args),
                        {<<call.args[i], sleepDuration(call.args[i])>> :
                             i \in 1..Len(call.args)})
    /\ UNCHANGED <<config, views, earlier>>

FnGeneratePredictions ==
    /\ call.fn = "generatePredictions" /\ ~call.done
    /\ call' = Returned(generatePredictions(This),
                        IF noPredictions(This)
                        THEN {}
                        ELSE {displayedDataOfPredictions(This)})
    /\ UNCHANGED <<config, views, earlier>>

FnRefresh ==
    /\ call.fn = "refresh" /\ ~call.done
    /\ UNCHANGED <<config, earlier>>
    /\ Rerender(This)
    /\ UpdateInfo(This)
    /\ call' = Returned(<<>>, {})

\* loadData on the response of the host: the records are stored, the
\* averaging days set, the chart and the info panel drawn.
FnLoadData ==
    /\ call.fn = "loadData" /\ ~call.done
    /\ LET next == [This EXCEPT !.sleepData = responseJson(dataFile),
                                !.averagingDays =
                                    uniqueDatesSize(responseJson(dataFile))]
       IN  /\ sleepData' = next.sleepData
           /\ averagingDays' = next.averagingDays
           /\ loading' = "loaded"
           /\ UNCHANGED <<dayStartHour, maxEntries, showPredictions,
                          predictionDays, showSleepBlocks, tz, dataFile,
                          earlier>>
           /\ Rerender(next)
           /\ UpdateInfo(next)
    /\ call' = Returned(<<>>, {})

\* Number.isInteger on a number held as a fraction with a positive
\* denominator, and the integer such a number is.
isInteger(x) == x.num % x.den = 0

integerValue(x) == x.num \div x.den

rejectsDayStartHourOutOfRange(hour) ==
    hour.num < 0 \/ hour.num > 23 * hour.den

rejectsDayStartHour(hour) ==
    hour.num < 0 \/ hour.num > 23 * hour.den \/ ~isInteger(hour)

rejectsMaxEntries(count) == count.num < 0 \/ ~isInteger(count)

rejectsPredictionDays(days) == days.num < 0 \/ ~isInteger(days)

rejectsAveragingDays(days) == days.num < 1 * days.den \/ ~isInteger(days)

\* The setters: what each does to the fields and to the page.  A rejected
\* argument returns before anything is assigned.
setDayStartHour(hour) ==
    IF rejectsDayStartHour(hour)
    THEN UNCHANGED <<config, views>>
    ELSE LET next == [This EXCEPT !.dayStartHour = integerValue(hour)]
         IN  /\ dayStartHour' = next.dayStartHour
             /\ UNCHANGED <<sleepData, maxEntries, showPredictions,
                            predictionDays, averagingDays, showSleepBlocks,
                            host>>
             /\ Rerender(next)
             /\ UpdateInfo(next)

setMaxEntries(count) ==
    IF rejectsMaxEntries(count)
    THEN UNCHANGED <<config, views>>
    ELSE LET next == [This EXCEPT !.maxEntries = integerValue(count)]
         IN  /\ maxEntries' = next.maxEntries
             /\ UNCHANGED <<sleepData, dayStartHour, showPredictions,
                            predictionDays, averagingDays, showSleepBlocks,
                            host>>
             /\ Rerender(next)
             /\ UpdateInfo(next)

setPredictionDays(days) ==
    IF rejectsPredictionDays(days)
    THEN UNCHANGED <<config, views>>
    ELSE LET next == [This EXCEPT !.predictionDays = integerValue(days)]
         IN  /\ predictionDays' = next.predictionDays
             /\ UNCHANGED <<sleepData, dayStartHour, maxEntries,
                            showPredictions, averagingDays, showSleepBlocks,
                            host>>
             /\ IF showPredictions
                THEN Rerender(next) /\ UpdateInfo(next)
                ELSE UNCHANGED views

setAveragingDays(days) ==
    IF rejectsAveragingDays(days)
    THEN UNCHANGED <<config, views>>
    ELSE LET next == [This EXCEPT !.averagingDays = integerValue(days)]
         IN  /\ averagingDays' = next.averagingDays
             /\ UNCHANGED <<sleepData, dayStartHour, maxEntries,
                            showPredictions, predictionDays, showSleepBlocks,
                            host>>
             /\ IF showPredictions
                THEN Rerender(next) /\ UpdateInfo(next)
                ELSE UNCHANGED views

FnSetDayStartHour ==
    /\ call.fn = "setDayStartHour" /\ ~call.done
    /\ setDayStartHour(call.args[1])
    /\ call' = Returned(<<>>, {})
    /\ UNCHANGED earlier

FnSetMaxEntries ==
    /\ call.fn = "setMaxEntries" /\ ~call.done
    /\ setMaxEntries(call.args[1])
    /\ call' = Returned(<<>>, {})
    /\ UNCHANGED earlier

FnSetPredictionDays ==
    /\ call.fn = "setPredictionDays" /\ ~call.done
    /\ setPredictionDays(call.args[1])
    /\ call' = Returned(<<>>, {})
    /\ UNCHANGED earlier

FnSetAveragingDays ==
    /\ call.fn = "setAveragingDays" /\ ~call.done
    /\ setAveragingDays(call.args[1])
    /\ call' = Returned(<<>>, {})
    /\ UNCHANGED earlier

NextFn ==
    \/ FnCalculateEntryDrift
    \/ FnCalculateDrift
    \/ FnCycleLength
    \/ FnGetMainSleepEntries
    \/ FnAverageSleepPerDay
    \/ FnGeneratePredictions
    \/ FnRefresh
    \/ FnLoadData
    \/ FnSetDayStartHour
    \/ FnSetMaxEntries
    \/ FnSetPredictionDays
    \/ FnSetAveragingDays

FnSpec == InitFn /\ [][NextFn]_vars

----------------------------------------------------------------------------
(* The component in the page: it is constructed, its data file is         *)
(* requested, and the controls call its setters before and after the      *)
(* data arrives.                                                          *)

NoCall == Pending("none", <<>>)

Init ==
    /\ sleepData = <<>>
    /\ dayStartHour = 17
    /\ maxEntries = 90
    /\ showPredictions = TRUE
    /\ predictionDays = 30
    /\ averagingDays = 14
    /\ showSleepBlocks = TRUE
    /\ infoBox = <<>>
    /\ xAxis = <<>>
    /\ sleepBlocks = <<>>
    /\ trendLines = <<>>
    /\ tz \in TimeZones
    /\ dataFile \in DataFiles
    /\ loading = "pending"
    /\ call = NoCall
    /\ earlier = <<>>

\* The prediction loop of the model is run for MaxPredictionDays days at most.
Bounded(this) ==
    \/ this.sleepData = <<>>
    \/ ~this.showPredictions
    \/ this.predictionDays <= MaxPredictionDays

\* A call of generatePredictions on the component and what it returned.
Invocation(this) ==
    [fn     |-> "generatePredictions",
     args   |-> <<this.sleepData, this.maxEntries, this.averagingDays,
                  this.predictionDays, this.showPredictions>>,
     done   |-> TRUE,
     ret    |-> generatePredictions(this),
     locals |-> {}]

\* call is the latest call of generatePredictions; earlier is empty or
\* holds one of the calls before it, any of them.
Remember(this, invoked) ==
    IF invoked
    THEN /\ call' = Invocation(this)
         /\ earlier' \in IF call.done /\ earlier = <<>>
                         THEN {earlier, <<call>>}
                         ELSE {earlier}
    ELSE UNCHANGED <<call, earlier>>

\* The renderers call generatePredictions when predictions are shown and
\* they get past their guards.
RenderersPredict(this) == this.showPredictions /\ Len(this.sleepData) >= 1

\* The four calls that end loadData and most setters.
Refresh(this) ==
    /\ Rerender(this)
    /\ UpdateInfo(this)
    /\ Remember(this, RenderersPredict(this))

LoadData ==
    /\ loading = "pending"
    /\ LET next == [This EXCEPT !.sleepData = responseJson(dataFile),
                                !.averagingDays =
                                    uniqueDatesSize(responseJson(dataFile))]
       IN  /\ Bounded(next)
           /\ sleepData' = next.sleepData
           /\ averagingDays' = next.averagingDays
           /\ loading' = "loaded"
           /\ UNCHANGED <<dayStartHour, maxEntries, showPredictions,
                          predictionDays, showSleepBlocks, tz, dataFile>>
           /\ Refresh(next)

\* The request fails: the catch branch leaves the fields as they are.
LoadFails ==
    /\ loading = "pending"
    /\ loading' = "failed"
    /\ UNCHANGED <<fields, tz, dataFile, views, call, earlier>>

setShowPredictions(show) ==
    LET next == [This EXCEPT !.showPredictions = show]
    IN  /\ Bounded(next)
        /\ showPredictions' = show
        /\ UNCHANGED <<sleepData, dayStartHour, maxEntries, predictionDays,
                       averagingDays, showSleepBlocks, host>>
        /\ Refresh(next)

\* setShowSleepTrendLines and setShowWakeTrendLines: the switch, which the
\* engine does not read, then renderTrendLines.
TrendLinesDrawn(lines) ==
    trendLines' = IF lines.written THEN lines.content ELSE trendLines

setShowTrendLines ==
    /\ TrendLinesDrawn(renderTrendLines(This))
    /\ UNCHANGED <<config, infoBox, xAxis, sleepBlocks>>
    /\ Remember(This, showPredictions /\ Len(sleepData) > 1)

\* The container is emptied, then renderSleepBlocks fills it again.
ContainerFilled(blocks) ==
    /\ sleepBlocks' = blocks.sleepBlocks
    /\ trendLines' = blocks.trendLines

setShowSleepBlocks(show) ==
    LET next == [This EXCEPT !.showSleepBlocks = show]
    IN  /\ showSleepBlocks' = show
        /\ UNCHANGED <<sleepData, dayStartHour, maxEntries, showPredictions,
                       predictionDays, averagingDays, host, infoBox, xAxis>>
        /\ ContainerFilled(renderSleepBlocks(next))
        /\ Remember(next, /\ next.showPredictions
                          /\ \/ Len(next.sleepData) > 1
                             \/ Len(next.sleepData) = 1 /\ show)

\* What a call of a validating setter adds to the record of calls: the
\* renderers run, and predict, only when the argument was accepted.
Observed(rejected, this) == Remember(this, ~rejected /\ RenderersPredict(this))

SetDayStartHour ==
    \E hour \in DayStartHourInputs :
        /\ setDayStartHour(hour)
        /\ Observed(rejectsDayStartHour(hour),
                    [This EXCEPT !.dayStartHour = integerValue(hour)])

SetMaxEntries ==
    \E count \in MaxEntriesInputs :
        /\ setMaxEntries(count)
        /\ Observed(rejectsMaxEntries(count),
                    [This EXCEPT !.maxEntries = integerValue(count)])

SetShowPredictions == \E show \in BOOLEAN : setShowPredictions(show)

SetShowSleepBlocks == \E show \in BOOLEAN : setShowSleepBlocks(show)

SetPredictionDays ==
    \E days \in PredictionDaysInputs :
        /\ setPredictionDays(days)
        /\ Observed(rejectsPredictionDays(days),
                    [This EXCEPT !.predictionDays = integerValue(days)])

SetAveragingDays ==
    \E days \in AveragingDaysInputs :
        /\ setAveragingDays(days)
        /\ Observed(rejectsAveragingDays(days),
                    [This EXCEPT !.averagingDays = integerValue(days)])

Next ==
    \/ LoadData
    \/ LoadFails
    \/ SetDayStartHour
    \/ SetMaxEntries
    \/ SetShowPredictions
    \/ setShowTrendLines
    \/ SetShowSleepBlocks
    \/ SetPredictionDays
    \/ SetAveragingDays

Spec == Init /\ [][Next]_vars

----------------------------------------------------------------------------
(* Notions the properties are stated with *)

Returns(fn) == call.fn = fn /\ call.done

\* The value in (-12h, 12h] congruent to x modulo 24h.
ShorterRotation(x) ==
    LET m == x % 86400000
    IN  IF m > 43200000 THEN m - 86400000 ELSE m

\* x is 24h + d for some d with -12h < d <= 12h.
IsDayPlusSmallDrift(x) == x > 43200000 /\ x <= 129600000

RECURSIVE SumOfRatings(_)
SumOfRatings(entries) ==
    IF entries = <<>>
    THEN 0
    ELSE entries[1].rating + SumOfRatings(Tail(entries))

RECURSIVE SumOfRotations(_, _)
SumOfRotations(entries, field) ==
    IF Len(entries) < 2
    THEN 0
    ELSE ShorterRotation(entries[2][field] - entries[1][field])
             + SumOfRotations(Tail(entries), field)

----------------------------------------------------------------------------
(* C1 *)

\* C1: when the sleep (resp. wake) timestamps of a pair differ by 24h + d
\* with -12h < d <= 12h, the drift of the pair is exactly d: 0 for a
\* difference of exactly 24h, +12h for d = 12h.  For calculateDrift this is
\* read off lists whose consecutive pairs all have such a difference: the
\* drift sum is then the sum of the d's.
C1_DriftIsDayRemainder ==
    /\ Returns("calculateEntryDrift") =>
           LET rawSleep == call.args[2].sleep - call.args[1].sleep
               rawWake  == call.args[2].wake - call.args[1].wake
           IN  /\ IsDayPlusSmallDrift(rawSleep) =>
                      call.ret.sleepDrift = rawSleep - 86400000
               /\ IsDayPlusSmallDrift(rawWake) =>
                      call.ret.wakeDrift = rawWake - 86400000
    /\ (Returns("calculateDrift") /\ Len(call.args) >= 2) =>
           LET n == Len(call.args)
           IN  /\ (\A i \in 2..n : IsDayPlusSmallDrift(
                       call.args[i].sleep - call.args[i - 1].sleep)) =>
                      call.ret.sleepDrift.num =
                          call.args[n].sleep - call.args[1].sleep
                              - (n - 1) * 86400000
               /\ (\A i \in 2..n : IsDayPlusSmallDrift(
                       call.args[i].wake - call.args[i - 1].wake)) =>
                      call.ret.wakeDrift.num =
                          call.args[n].wake - call.args[1].wake
                              - (n - 1) * 86400000

\* A pair 36h apart (d = 12h) got the drift +12h.
C1_Witness ==
    /\ Returns("calculateEntryDrift")
    /\ call.args[2].sleep - call.args[1].sleep = 129600000
    /\ call.ret.sleepDrift = 43200000

----------------------------------------------------------------------------
(* C2 *)

\* C2: whatever the raw difference x of a pair (positive, negative, several
\* days), its drift lies in (-12h, 12h] and is congruent to x modulo 24h.
C2_DriftIsShorterRotation ==
    /\ Returns("calculateEntryDrift") =>
           LET rawSleep == call.args[2].sleep - call.args[1].sleep
               rawWake  == call.args[2].wake - call.args[1].wake
           IN  /\ call.ret.sleepDrift > 0 - 43200000
               /\ call.ret.sleepDrift <= 43200000
               /\ (call.ret.sleepDrift - rawSleep) % 86400000 = 0
               /\ call.ret.wakeDrift > 0 - 43200000
               /\ call.ret.wakeDrift <= 43200000
               /\ (call.ret.wakeDrift - rawWake) % 86400000 = 0
    /\ (Returns("calculateDrift") /\ Len(call.args) = 2) =>
           LET rawSleep == call.args[2].sleep - call.args[1].sleep
               rawWake  == call.args[2].wake - call.args[1].wake
           IN  /\ call.ret.sleepDrift.num = ShorterRotation(rawSleep)
               /\ call.ret.wakeDrift.num = ShorterRotation(rawWake)

\* A negative raw difference of several days was folded to a negative drift.
C2_Witness ==
    /\ Returns("calculateEntryDrift")
    /\ call.args[2].sleep - call.args[1].sleep < 0 - 86400000
    /\ call.ret.sleepDrift < 0

----------------------------------------------------------------------------
(* C3 *)

\* C3: for n >= 2 entries, avgRating is the sum of the ratings of all n
\* entries, the first included, divided by n.
C3_AvgRatingOverAllEntries ==
    (Returns("calculateDrift") /\ Len(call.args) >= 2) =>
        /\ call.ret.avgRating.den > 0
        /\ call.ret.avgRating.num * Len(call.args) =
               SumOfRatings(call.args) * call.ret.avgRating.den

----------------------------------------------------------------------------
(* C4 *)

\* C4: for n >= 2 entries, sleepDrift (resp. wakeDrift) is the sum of the
\* n-1 folded per-pair drifts divided by n-1, whatever the gaps in days.
C4_DriftIsUnweightedMean ==
    (Returns("calculateDrift") /\ Len(call.args) >= 2) =>
        LET n == Len(call.args)
        IN  /\ call.ret.sleepDrift.den > 0
            /\ call.ret.wakeDrift.den > 0
            /\ call.ret.sleepDrift.num * (n - 1) =
                   SumOfRotations(call.args, "sleep") * call.ret.sleepDrift.den
            /\ call.ret.wakeDrift.num * (n - 1) =
                   SumOfRotations(call.args, "wake") * call.ret.wakeDrift.den

\* Three entries, the last two several days apart, with a non-zero mean.
C4_Witness ==
    /\ Returns("calculateDrift")
    /\ Len(call.args) = 3
    /\ call.args[3].sleep - call.args[2].sleep > 2 * 86400000
    /\ call.args[2].sleep - call.args[1].sleep < 86400000
    /\ call.ret.sleepDrift.num # 0

----------------------------------------------------------------------------
(* C5 *)

\* C5: calculateDrift always returns numbers, and for 0 or 1 entries they
\* are the default: +30 minutes for both drifts and the rating 3.
C5_DefaultOnFewEntries ==
    Returns("calculateDrift") =>
        /\ call.ret.sleepDrift.den > 0
        /\ call.ret.wakeDrift.den > 0
        /\ call.ret.avgRating.den > 0
        /\ Len(call.args) < 2 =>
               /\ call.ret.sleepDrift = [num |-> 1800000, den |-> 1]
               /\ call.ret.wakeDrift = [num |-> 1800000, den |-> 1]
               /\ call.ret.avgRating = [num |-> 3, den |-> 1]

\* The default came back for a single entry.
C5_Witness ==
    /\ Returns("calculateDrift")
    /\ Len(call.args) = 1
    /\ call.ret.sleepDrift.num = 1800000

----------------------------------------------------------------------------
(* C6 *)

AbsOf(x) == IF x < 0 THEN 0 - x ELSE x

\* |d| < 1 minute, for the rational d.
BelowOneMinute(d) == AbsOf(d.num) < 60000 * d.den

\* round(24h / |d|), halves rounded up.
RoundedDaysPerLoop(d) == (2 * 86400000 * d.den + AbsOf(d.num)) \div (2 * AbsOf(d.num))

\* C6: the cycle length of a total drift d, of either sign, is 0 when |d| is
\* below one minute and round(24h / |d|) otherwise.
C6_CycleLengthIsRoundedQuotient ==
    Returns("cycleLength") =>
        \A i \in 1..2 :
            call.ret[i] = IF BelowOneMinute(call.args[i])
                          THEN 0
                          ELSE RoundedDaysPerLoop(call.args[i])

----------------------------------------------------------------------------
(* C7 *)

\* |d1| < |d2|, for rationals.
SmallerMagnitude(d1, d2) == AbsOf(d1.num) * d2.den < AbsOf(d2.num) * d1.den

\* C7: of two drifts of at least one minute, the one of larger magnitude
\* never has the longer cycle; a drift below one minute has cycle length 0.
C7_CycleLengthMonotone ==
    Returns("cycleLength") =>
        /\ \A i \in 1..2 : BelowOneMinute(call.args[i]) => call.ret[i] = 0
        /\ \A i \in 1..2 : \A j \in 1..2 :
               (/\ ~BelowOneMinute(call.args[i])
                /\ SmallerMagnitude(call.args[i], call.args[j])) =>
                   call.ret[i] >= call.ret[j]

\* A negative drift of larger magnitude than a positive one got the strictly
\* shorter cycle.
C7_Witness ==
    /\ Returns("cycleLength")
    /\ ~BelowOneMinute(call.args[1])
    /\ call.args[1].num > 0
    /\ call.args[2].num < 0
    /\ SmallerMagnitude(call.args[1], call.args[2])
    /\ call.ret[1] > call.ret[2]
    /\ call.ret[2] > 0

----------------------------------------------------------------------------
(* C8 *)

Elapsed(r) == r.wake - r.sleep

\* The first of the records with the greatest elapsed duration.
FirstLongest(entries) ==
    LET k == CHOOSE i \in 1..Len(entries) :
                 /\ \A j \in 1..Len(entries) :
                        Elapsed(entries[j]) <= Elapsed(entries[i])
                 /\ \A j \in 1..(i - 1) :
                        Elapsed(entries[j]) < Elapsed(entries[i])
    IN  entries[k]

SameDay(data, r) ==
    SelectSeq(data, LAMBDA e : e.sleep \div 86400000 = r.sleep \div 86400000)

\* C8: each returned main sleep is, among the records of its calendar day,
\* the first one with the greatest elapsed wake-minus-sleep duration.
C8_MainSleepIsLongestElapsed ==
    Returns("getMainSleepEntries") =>
        \A k \in 1..Len(call.ret) :
            call.ret[k] = FirstLongest(SameDay(call.args, call.ret[k]))

----------------------------------------------------------------------------
(* C9 *)

\* C9: when the data is one day's three records of 2h, 8h and 1h, in any
\* order, the main sleep is the 8h record.
C9_LongestOfThreeAnyOrder ==
    (/\ Returns("getMainSleepEntries")
     /\ Len(call.args) = 3
     /\ \A i \in 1..3 : call.args[i].sleep \div 86400000
                            = call.args[1].sleep \div 86400000
     /\ {Elapsed(call.args[i]) : i \in 1..3} = {3600000, 7200000, 28800000}) =>
        /\ Len(call.ret) = 1
        /\ Elapsed(call.ret[1]) = 28800000

\* The 8h record came last in the data and was selected.
C9_Witness ==
    /\ Returns("getMainSleepEntries")
    /\ Len(call.args) = 3
    /\ \A i \in 1..3 : call.args[i].sleep \div 86400000
                           = call.args[1].sleep \div 86400000
    /\ <<Elapsed(call.args[1]), Elapsed(call.args[2]), Elapsed(call.args[3])>>
           = <<7200000, 3600000, 28800000>>
    /\ call.ret = <<call.args[3]>>

----------------------------------------------------------------------------
(* C10 *)

\* sleepHour and wakeHour of the code, getHours() + getMinutes() / 60 in the
\* local zone, counted in minutes.
HourOf(t) == ((t + tz * 60000) % 86400000) \div 60000

Overnight(r) == HourOf(r.wake) < HourOf(r.sleep)

WholeMinutes(r) == r.sleep % 60000 = 0 /\ r.wake % 60000 = 0

\* A duration the engine computed, in milliseconds: the main-sleep search
\* works in clock minutes, the average-sleep computation in milliseconds.
UsedDurations ==
    IF Returns("getMainSleepEntries")
    THEN {<<p[1], p[2] * 60000>> : p \in call.locals}
    ELSE IF Returns("averageSleepPerDay") THEN call.locals ELSE {}

\* C10 as stated: every duration the engine computes is non-negative,
\* and for a record whose wake clock-time is earlier than its sleep
\* clock-time it is positive and equal to (24h - sleepHour) + wakeHour.
C10_OvernightDurationAsStated ==
    \A p \in UsedDurations :
        /\ p[2] >= 0
        /\ Overnight(p[1]) =>
               /\ p[2] > 0
               /\ p[2] = (24 * 60 - HourOf(p[1].sleep) + HourOf(p[1].wake)) * 60000

\* C10 amended: the same, for the records that wake less than 24h after
\* falling asleep and whose timestamps are on whole minutes.
C10_OvernightDuration ==
    \A p \in UsedDurations :
        /\ Elapsed(p[1]) >= 0 => p[2] >= 0
        /\ (/\ Overnight(p[1])
            /\ Elapsed(p[1]) >= 0
            /\ Elapsed(p[1]) < 86400000
            /\ WholeMinutes(p[1])) =>
               /\ p[2] > 0
               /\ p[2] = (24 * 60 - HourOf(p[1].sleep) + HourOf(p[1].wake)) * 60000

\* Both computations measured 2h for a record sleeping across local midnight.
C10_Witness ==
    \E p \in UsedDurations :
        /\ Overnight(p[1])
        /\ Elapsed(p[1]) = 7200000
        /\ p[2] = 7200000

----------------------------------------------------------------------------
(* C11 *)

DateOf(t) == t \div 86400000

\* The day groups of the call's data, in the order of the Map.
DayGroups ==
    LET keys == dayKeys(call.args)
    IN  [k \in 1..Len(keys) |-> entriesOfDay(call.args, keys[k])]

\* C11: the day groups partition the records by the calendar date of the
\* sleep timestamp: the keys are distinct, every record's sleep date is a
\* key, and the group of a key holds exactly the records sleeping on that
\* date, whatever the date of their wake; the returned list has at most one
\* record per calendar date and each returned record is a record of the data.
C11_GroupingPartitionsBySleepDate ==
    Returns("getMainSleepEntries") =>
        LET data == call.args
            keys == dayKeys(data)
        IN  /\ \A i \in 1..Len(keys) : \A j \in 1..Len(keys) :
                   i # j => keys[i] # keys[j]
            /\ \A i \in 1..Len(data) :
                   \E k \in 1..Len(keys) : keys[k] = DateOf(data[i].sleep)
            /\ \A k \in 1..Len(keys) :
                   DayGroups[k] =
                       SelectSeq(data, LAMBDA r : DateOf(r.sleep) = keys[k])
            /\ \A i \in 1..Len(call.ret) : \A j \in 1..Len(call.ret) :
                   i # j => DateOf(call.ret[i].sleep) # DateOf(call.ret[j].sleep)
            /\ \A i \in 1..Len(call.ret) :
                   \E j \in 1..Len(data) : call.ret[i] = data[j]

\* Three records on two dates, one of them waking on the date after it fell
\* asleep and grouped with the record that shares its sleep date.
C11_Witness ==
    /\ Returns("getMainSleepEntries")
    /\ Len(call.args) = 3
    /\ Len(call.ret) = 2
    /\ \E k \in 1..Len(DayGroups) :
           /\ Len(DayGroups[k]) = 2
           /\ \E i \in 1..2 :
                  DateOf(DayGroups[k][i].wake) # DateOf(DayGroups[k][i].sleep)

----------------------------------------------------------------------------
(* C12 *)

DatesOf(entries) == {DateOf(entries[k].sleep) : k \in 1..Len(entries)}

\* The n most recent dates of a set of dates.
RECURSIVE MostRecent(_, _)
MostRecent(dates, n) ==
    IF n = 0 \/ dates = {}
    THEN {}
    ELSE LET last == CHOOSE d \in dates : \A e \in dates : e <= d
         IN  {last} \cup MostRecent(dates \ {last}, n - 1)

\* C12: for the data in any order, the returned list ascends strictly by
\* sleep timestamp, each of its records is the main sleep of its date, and
\* its dates are the averagingDays most recent dates of the data when
\* averagingDays is smaller than the number of distinct dates, all the
\* dates otherwise.
C12_SortedTrailingWindow ==
    Returns("getMainSleepEntries") =>
        LET data  == call.args
            dates == DatesOf(data)
        IN  /\ \A k \in 1..(Len(call.ret) - 1) :
                   call.ret[k].sleep < call.ret[k + 1].sleep
            /\ \A k \in 1..Len(call.ret) :
                   call.ret[k] = mainSleepOf(SameDay(data, call.ret[k]))
            /\ DatesOf(call.ret) =
                   IF averagingDays < Cardinality(dates)
                   THEN MostRecent(dates, averagingDays)
                   ELSE dates
            /\ Len(call.ret) = Cardinality(DatesOf(call.ret))

\* Data of three dates listed latest first, with a window of two days: the
\* two latest main sleeps came back, earliest first.
C12_Witness ==
    /\ Returns("getMainSleepEntries")
    /\ averagingDays = 2
    /\ Len(call.args) = 3
    /\ DateOf(call.args[1].sleep) = 2
    /\ DateOf(call.args[2].sleep) = 1
    /\ DateOf(call.args[3].sleep) = 0
    /\ call.ret = <<call.args[2], call.args[1]>>

----------------------------------------------------------------------------
(* C13 *)

RECURSIVE SumOfElapsed(_)
SumOfElapsed(data) ==
    IF data = <<>> THEN 0 ELSE Elapsed(data[1]) + SumOfElapsed(Tail(data))

\* C13: the average sleep per day is the sum of wake minus sleep over all
\* the records, naps included, divided by the number of distinct calendar
\* dates that have a record; dates without a record do not count, and a
\* 7h day and a 9h day of one record each give 8h.
C13_AverageSleepPerDay ==
    Returns("averageSleepPerDay") =>
        LET data == call.args
        IN  /\ call.ret.den > 0
            /\ call.ret.num * Cardinality(DatesOf(data))
                   = SumOfElapsed(data) * call.ret.den
            /\ (/\ Len(data) = 2
                /\ DateOf(data[1].sleep) # DateOf(data[2].sleep)
                /\ {Elapsed(data[1]), Elapsed(data[2])} = {25200000, 32400000}) =>
                   call.ret.num = 28800000 * call.ret.den

\* A 9h day followed by a 7h day averaged 8h.
C13_Witness ==
    /\ Returns("averageSleepPerDay")
    /\ Len(call.args) = 2
    /\ DateOf(call.args[1].sleep) = 1
    /\ DateOf(call.args[2].sleep) = 2
    /\ Elapsed(call.args[1]) = 32400000
    /\ Elapsed(call.args[2]) = 25200000
    /\ call.ret.num = 28800000 * call.ret.den

----------------------------------------------------------------------------
(* C14 *)

\* The last n records of a list, all of it when n is 0 or at least its length.
LastRecords(data, n) ==
    IF n = 0 \/ n >= Len(data)
    THEN data
    ELSE [k \in 1..n |-> data[Len(data) - n + k]]

WindowIsAll == maxEntries = 0 \/ maxEntries >= Len(sleepData)

\* C14: the info panel (for the drift and for the average sleep), the
\* predictor and each renderer work on the last maxEntries records of the
\* record list, on the whole list when maxEntries is 0 or at least the
\* record count; in that case the visible drift and the visible average
\* sleep of the info panel equal the total ones.
C14_SameVisibleWindow ==
    /\ Returns("refresh") =>
           /\ infoBox # <<>> =>
                  /\ infoBox[1].displayedData = LastRecords(sleepData, maxEntries)
                  /\ infoBox[1].visibleData = LastRecords(sleepData, maxEntries)
                  /\ WindowIsAll =>
                         /\ infoBox[1].visualizedDrift = infoBox[1].totalDrift
                         /\ infoBox[1].avgSleepPerDayVisibleMs
                                = infoBox[1].avgSleepPerDayMs
           /\ xAxis # <<>> =>
                  xAxis[1].filteredData = LastRecords(sleepData, maxEntries)
           /\ sleepBlocks # <<>> =>
                  sleepBlocks[1].filteredData = LastRecords(sleepData, maxEntries)
           /\ trendLines # <<>> =>
                  trendLines[1].filteredData = LastRecords(sleepData, maxEntries)
    /\ Returns("generatePredictions") =>
           \A window \in call.locals :
               window = LastRecords(sleepData, maxEntries)

\* Three records shown through a window of two: every element was drawn
\* from the last two records and the visible drift differs from the total.
C14_Witness ==
    /\ Returns("refresh")
    /\ Len(sleepData) = 3
    /\ maxEntries = 2
    /\ infoBox # <<>>
    /\ xAxis # <<>>
    /\ sleepBlocks # <<>>
    /\ trendLines # <<>>
    /\ infoBox[1].displayedData = <<sleepData[2], sleepData[3]>>
    /\ sleepBlocks[1].filteredData = <<sleepData[2], sleepData[3]>>
    /\ infoBox[1].visualizedDrift # infoBox[1].totalDrift

----------------------------------------------------------------------------
(* C15 *)

\* C15: generatePredictions returns exactly predictionDays records when
\* predictions are shown, predictionDays is positive and there is at least
\* one record, and the empty list when predictions are not shown, when
\* predictionDays is 0 or when there is no record.
C15_PredictionCount ==
    Returns("generatePredictions") =>
        /\ (showPredictions /\ predictionDays > 0 /\ Len(sleepData) >= 1) =>
               Len(call.ret) = predictionDays
        /\ (~showPredictions \/ predictionDays = 0 \/ Len(sleepData) = 0) =>
               call.ret = <<>>

\* The largest number of days was asked of a file of one record.
C15_Witness ==
    /\ Returns("generatePredictions")
    /\ showPredictions
    /\ Len(sleepData) = 1
    /\ predictionDays = MaxPredictionDays
    /\ Len(call.ret) = MaxPredictionDays

----------------------------------------------------------------------------
(* C16 *)

\* The main sleeps the predictor works from.
VisibleMainSleeps ==
    getMainSleepEntries(This, LastRecords(sleepData, maxEntries))

LastVisibleMainSleep == VisibleMainSleeps[Len(VisibleMainSleeps)]

\* Local time of day, in milliseconds.
ClockOf(t) == (t + tz * 60000) % 86400000

\* C16: the time of day of the N-th predicted wake is the hour:minute of
\* the sleep time of the last real main sleep plus N times the sleep drift,
\* modulo 24h.
C16_DriftCompounds ==
    (Returns("generatePredictions") /\ call.ret # <<>>) =>
        LET drift == calculateDrift(VisibleMainSleeps).sleepDrift
            seed  == HourOf(LastVisibleMainSleep.sleep) * 60000
        IN  \A N \in 1..Len(call.ret) :
                ClockOf(call.ret[N].wake) * drift.den
                    = (seed * drift.den + N * drift.num) % (86400000 * drift.den)

----------------------------------------------------------------------------
(* C17 *)

\* The main sleep of every date of the whole record list.
DatasetMainSleeps == sortBySleep(mainSleepsByDay(sleepData))

\* C17 as stated: every predicted record lasts the average wake minus sleep
\* of the main sleeps of the whole data set.
C17_DatasetWideDuration ==
    (Returns("generatePredictions") /\ call.ret # <<>>) =>
        \A N \in 1..Len(call.ret) :
            (call.ret[N].wake - call.ret[N].sleep) * Len(DatasetMainSleeps)
                = SumOfElapsed(DatasetMainSleeps)

\* C17 amended: every predicted record has the same duration, and its sleep
\* time is its wake time minus the average wake minus sleep of the main
\* sleeps the predictor works from (those of the visible window, limited to
\* averagingDays), the fraction of a millisecond dropped from the sleep time.
C17_SameDurationForEveryStep ==
    (Returns("generatePredictions") /\ call.ret # <<>>) =>
        LET n     == Len(VisibleMainSleeps)
            total == SumOfElapsed(VisibleMainSleeps)
        IN  \A N \in 1..Len(call.ret) :
                LET duration == call.ret[N].wake - call.ret[N].sleep
                IN  /\ duration = call.ret[1].wake - call.ret[1].sleep
                    /\ total <= duration * n
                    /\ duration * n < total + n

\* Three predictions from a window of two nights of 8h, in a file whose
\* main sleeps average less: all three last 8h.
C17_Witness ==
    /\ Returns("generatePredictions")
    /\ Len(call.ret) = 3
    /\ Len(sleepData) = 3
    /\ maxEntries = 2
    /\ SumOfElapsed(DatasetMainSleeps) < 28800000 * Len(DatasetMainSleeps)
    /\ \A N \in 1..3 : call.ret[N].wake - call.ret[N].sleep = 28800000
    /\ call.ret[1].wake # call.ret[2].wake

----------------------------------------------------------------------------
(* C18 *)

RatingsUsed == {VisibleMainSleeps[k].rating : k \in 1..Len(VisibleMainSleeps)}

\* Math.round of a rational with positive denominator.
RoundedRating(r) == (2 * r.num + r.den) \div (2 * r.den)

\* C18: every predicted record is flagged as predicted, carries the note
\* of predicted entries, and its rating is the rounded average rating of
\* the drift calculation, an integer between the least and the greatest
\* rating of the entries used.
C18_PredictedRecordsFlaggedAndRated ==
    Returns("generatePredictions") =>
        \A N \in 1..Len(call.ret) :
            /\ call.ret[N].isPredicted = TRUE
            /\ call.ret[N].note = "Predicted entry"
            /\ call.ret[N].rating
                   = RoundedRating(calculateDrift(VisibleMainSleeps).avgRating)
            /\ \E low \in RatingsUsed : low <= call.ret[N].rating
            /\ \E high \in RatingsUsed : call.ret[N].rating <= high

----------------------------------------------------------------------------
(* C19 *)

\* C19: a call of generatePredictions with the record list, maxEntries,
\* averagingDays, predictionDays and showPredictions of a call made before
\* it returns the list that call returned, whatever was called in between.
C19_PredictionIsDeterministic ==
    (earlier # <<>> /\ call.done /\ earlier[1].args = call.args) =>
        earlier[1].ret = call.ret

\* Two calls on the same records and settings returned the same non-empty
\* list, the start of the chart's day having been moved meanwhile or before.
C19_Witness ==
    /\ earlier # <<>>
    /\ call.done
    /\ earlier[1].args = call.args
    /\ earlier[1].ret = call.ret
    /\ Len(call.ret) >= 2
    /\ dayStartHour = 6
    /\ maxEntries = 2

----------------------------------------------------------------------------
(* C20 *)

\* C20: whatever setters were called and whatever was rendered, the record
\* store holds the records of the loaded file, the same records in the same
\* order, and nothing before the file is loaded; no record of it is a
\* predicted one.
C20_RecordStoreUntouched ==
    /\ sleepData = IF loading = "loaded" THEN dataFile ELSE <<>>
    /\ \A i \in 1..Len(sleepData) :
           /\ DOMAIN sleepData[i] = {"sleep", "wake", "rating"}
           /\ \A k \in 1..Len(xAxis) :
                  \A j \in 1..Len(xAxis[k].predictedEntries) :
                      xAxis[k].predictedEntries[j] # sleepData[i]

\* A file listed out of order was loaded and drawn with predictions through
\* no window, with the settings changed since: the store is the file.
C20_Witness ==
    /\ loading = "loaded"
    /\ Len(sleepData) = 3
    /\ sleepData[1].sleep > sleepData[2].sleep
    /\ sleepData = dataFile
    /\ maxEntries = 0
    /\ dayStartHour = 6
    /\ averagingDays = 1
    /\ xAxis # <<>>
    /\ Len(xAxis[1].predictedEntries) = MaxPredictionDays
    /\ xAxis[1].filteredData = sleepData

----------------------------------------------------------------------------
(* C21 *)

\* The info panel shows the figures of the records and settings of now.
InfoIsCurrent ==
    updateNon24Info(This).written => infoBox = updateNon24Info(This).content

\* The x axis shows the predictions of the records and settings of now.
PredictionsAreCurrent ==
    renderXAxis(This).written => xAxis = renderXAxis(This).content

\* C21: once the data is loaded, after any calls of the setters in any
\* order, the figures of the info panel and the predictions on display are
\* those derived from the current records and the current settings.
C21_DisplayIsCurrent ==
    loading = "loaded" => InfoIsCurrent /\ PredictionsAreCurrent

----------------------------------------------------------------------------
(* C22 *)

\* The records are five, one day and 30 minutes apart from the earliest
\* on, the earliest falling asleep at 23:00 local time, each 8 hours long.
FiveDriftingNights ==
    /\ Len(sleepData) = 5
    /\ \E first \in 1..5 :
           /\ ClockOf(sleepData[first].sleep) = 23 * 3600000
           /\ \A k \in 0..4 : \E i \in 1..5 :
                  /\ sleepData[i].sleep
                         = sleepData[first].sleep + k * (86400000 + 1800000)
                  /\ sleepData[i].wake = sleepData[i].sleep + 8 * 3600000

\* The latest sleep time of the records.
LastRealSleep ==
    CHOOSE t \in {sleepData[i].sleep : i \in 1..Len(sleepData)} :
        \A i \in 1..Len(sleepData) : sleepData[i].sleep <= t

\* C22: for the five nights drifting 30 minutes a day, the drift shown is
\* +30 minutes and the cycle length 48 days, and with two days predicted
\* the second prediction is at the clock time of the last real sleep plus
\* one hour.
C22_EndToEnd ==
    (Returns("loadData") /\ FiveDriftingNights) =>
        /\ infoBox # <<>>
        /\ infoBox[1].totalDrift.num = 1800000 * infoBox[1].totalDrift.den
        /\ infoBox[1].cycleDays = 48
        /\ predictionDays = 2 =>
               /\ xAxis # <<>>
               /\ Len(xAxis[1].predictedEntries) = 2
               /\ ClockOf(xAxis[1].predictedEntries[2].wake)
                      = (ClockOf(LastRealSleep) + 3600000) % 86400000

\* The five nights were loaded out of order east of Greenwich, two days
\* were predicted, and the second wake is predicted for 02:00.
C22_Witness ==
    /\ Returns("loadData")
    /\ FiveDriftingNights
    /\ sleepData[1].sleep > sleepData[5].sleep
    /\ tz # 0
    /\ predictionDays = 2
    /\ infoBox # <<>>
    /\ infoBox[1].cycleDays = 48
    /\ xAxis # <<>>
    /\ Len(xAxis[1].predictedEntries) = 2
    /\ ClockOf(xAxis[1].predictedEntries[2].wake) = 2 * 3600000

----------------------------------------------------------------------------
(* C23 *)

\* C23: in a component none of whose entry-limit calls was made, before and
\* after its data is loaded, maxEntries is 0 and what is drawn is drawn from
\* the whole record list.
C23_DefaultShowsAll ==
    call.fn = "loadData" =>
        /\ maxEntries = 0
        /\ infoBox # <<>> => infoBox[1].displayedData = sleepData
        /\ xAxis # <<>> => xAxis[1].filteredData = sleepData
        /\ sleepBlocks # <<>> => sleepBlocks[1].filteredData = sleepData
        /\ trendLines # <<>> => trendLines[1].filteredData = sleepData

----------------------------------------------------------------------------
(* C24 *)

\* C24: the step that completes the load, whatever setters were called
\* while it was pending, leaves averagingDays equal to the number of
\* distinct sleep dates of the loaded records, and the total drift then
\* shown is the drift over the main sleeps of all the dates.
C24_AveragingDaysAfterLoad ==
    [][(loading = "pending" /\ loading' = "loaded") =>
           /\ averagingDays' = Cardinality(DatesOf(sleepData'))
           /\ infoBox' # <<>> =>
                  infoBox'[1].totalDrift
                      = calculateDrift(
                            sortBySleep(mainSleepsByDay(sleepData'))).sleepDrift
      ]_vars

\* A file of three records on two dates was loaded after the controls had
\* set the days to predict: averagingDays is 2 and the panel was written.
C24_Witness ==
    /\ loading = "loaded"
    /\ Len(sleepData) = 3
    /\ Cardinality(DatesOf(sleepData)) = 2
    /\ averagingDays = 2
    /\ predictionDays = MaxPredictionDays
    /\ showPredictions
    /\ infoBox # <<>>
    /\ call.done
    /\ call.args[3] = 2

----------------------------------------------------------------------------
(* C25 *)

\* C25: the first predicted wake time is later than the wake time of the
\* last real main sleep, and every predicted wake time is later than the
\* one of the step before.
C25_PredictionsAscend ==
    (Returns("generatePredictions") /\ call.ret # <<>>) =>
        /\ call.ret[1].wake > LastVisibleMainSleep.wake
        /\ \A N \in 2..Len(call.ret) : call.ret[N].wake > call.ret[N - 1].wake

----------------------------------------------------------------------------
(* C26 *)

\* Hour and minute of the local time of day, in minutes.
ClockMinutesOf(t) == ClockOf(t) \div 60000

\* C26: with exactly one record, predictions shown and predictionDays = n > 0,
\* generatePredictions returns n records; each has rating 3 and lasts as
\* long as the record, and the N-th wakes at the hour and minute of the
\* record's sleep time plus N times 30 minutes, modulo 24h.
C26_SingleRecordPredictions ==
    (/\ Returns("generatePredictions")
     /\ Len(sleepData) = 1
     /\ showPredictions
     /\ predictionDays > 0) =>
        /\ Len(call.ret) = predictionDays
        /\ \A N \in 1..Len(call.ret) :
               /\ call.ret[N].rating = 3
               /\ call.ret[N].wake - call.ret[N].sleep
                      = sleepData[1].wake - sleepData[1].sleep
               /\ ClockMinutesOf(call.ret[N].wake)
                      = (ClockMinutesOf(sleepData[1].sleep) + N * 30) % (24 * 60)

\* One nap of an hour, rated 5, gave three predictions of an hour rated 3.
C26_Witness ==
    /\ Returns("generatePredictions")
    /\ Len(sleepData) = 1
    /\ sleepData[1].rating = 5
    /\ sleepData[1].wake - sleepData[1].sleep = 3600000
    /\ predictionDays = MaxPredictionDays
    /\ Len(call.ret) = MaxPredictionDays
    /\ call.ret[1].rating = 3
    /\ call.ret[1].wake - call.ret[1].sleep = 3600000

----------------------------------------------------------------------------
(* C27 *)

\* C27: from the first predicted wake time on, each predicted wake time is
\* 24h plus the sleep drift after the one before.
C27_OneDriftedDayApart ==
    (Returns("generatePredictions") /\ call.ret # <<>>) =>
        LET drift == calculateDrift(VisibleMainSleeps).sleepDrift
        IN  \A N \in 2..Len(call.ret) :
                (call.ret[N].wake - call.ret[N - 1].wake) * drift.den
                    = 86400000 * drift.den + drift.num

(* C28 *)
\* Comparisons of a number held as a fraction with a whole number.
NotWhole(x) == x.num % x.den # 0

Below(x, n) == x.num < n * x.den

Above(x, n) == x.num > n * x.den

ValidatingSetters ==
    {"setDayStartHour", "setMaxEntries", "setPredictionDays", "setAveragingDays"}

\* The pending call passes its setter an argument the setter must reject.
InvalidArgument ==
    \/ /\ call.fn = "setDayStartHour"
       /\ Below(call.args[1], 0) \/ Above(call.args[1], 23) \/ NotWhole(call.args[1])
    \/ /\ call.fn = "setMaxEntries"
       /\ Below(call.args[1], 0) \/ NotWhole(call.args[1])
    \/ /\ call.fn = "setPredictionDays"
       /\ Below(call.args[1], 0) \/ NotWhole(call.args[1])
    \/ /\ call.fn = "setAveragingDays"
       /\ Below(call.args[1], 1) \/ NotWhole(call.args[1])

\* C28: a setter called with an invalid argument (setDayStartHour outside
\* 0..23 or not whole, setMaxEntries or setPredictionDays negative or not
\* whole, setAveragingDays below 1 or not whole) leaves every field, and
\* the page, as it was; and after any call of a setter dayStartHour lies
\* in 0..23 and maxEntries and predictionDays are not negative.
C28_SettersValidate ==
    [][(call.fn \in ValidatingSetters /\ ~call.done) =>
           /\ InvalidArgument => UNCHANGED <<config, views>>
           /\ dayStartHour' \in 0..23
           /\ maxEntries' >= 0
           /\ predictionDays' >= 0]_vars

\* A start hour of six and a half was passed to a component showing a
\* loaded file, and the call returned with the hour and the page as they
\* were.
C28_Witness ==
    /\ Returns("setDayStartHour")
    /\ call.args[1] = Rat(13, 2)
    /\ Len(sleepData) = 3
    /\ dayStartHour = 17
    /\ infoBox = <<>>

\* The settings of the component in the page after any sequence of calls.
SettingsAreValid ==
    /\ dayStartHour \in 0..23
    /\ maxEntries \in Nat
    /\ predictionDays \in Nat

(* C29 *)
\* The number d, held as a fraction, lies in (-12h, 12h].
WithinHalfDay(d) ==
    /\ d.num > (0 - HALF_DAY) * d.den
    /\ d.num <= HALF_DAY * d.den

\* The remainder of d modulo 24h is d itself.
ModuloKeeps(d) == JsRem(d.num, HOURS_IN_DAY * d.den) = d.num

CycleLengths == {0} \cup 2..1440

\* C29: for every list of entries the sleepDrift and wakeDrift returned by
\* calculateDrift lie in (-12h, 12h], taking the drift modulo 24h gives the
\* drift back, and the cycle length of the drift is 0 or a whole number of
\* days between 2 and 1440.
C29_DriftWithinHalfDay ==
    /\ Returns("calculateDrift") =>
           /\ WithinHalfDay(call.ret.sleepDrift)
           /\ WithinHalfDay(call.ret.wakeDrift)
           /\ ModuloKeeps(call.ret.sleepDrift)
           /\ cycleLength(call.ret.sleepDrift) \in CycleLengths
    /\ Returns("cycleLength") =>
           \A i \in 1..2 :
               /\ ModuloKeeps(call.args[i])
               /\ call.ret[i] \in CycleLengths

\* Three entries whose sleep times are 12h apart each, with wake times
\* that drift otherwise: the sleep drift is 12h, the end of the range, and
\* the cycle two days.
C29_Witness ==
    /\ Returns("calculateDrift")
    /\ Len(call.args) = 3
    /\ call.ret.sleepDrift.num = HALF_DAY * call.ret.sleepDrift.den
    /\ call.ret.wakeDrift.num # call.ret.sleepDrift.num
    /\ cycleLength(call.ret.sleepDrift) = 2

(* C30 *)
\* The first m records of a list, all of them when it has fewer.
FirstRecords(list, m) ==
    SubSeq(list, 1, IF m < Len(list) THEN m ELSE Len(list))

\* C30: with the data and the other settings fixed, for every m up to
\* predictionDays the list predicted for m days is exactly the first m
\* records of the list predicted for predictionDays days.
C30_PrefixStable ==
    Returns("generatePredictions") =>
        \A m \in 0..predictionDays :
            generatePredictions([This EXCEPT !.predictionDays = m])
                = FirstRecords(call.ret, m)

\* Predictions for the longest horizon from two nights with a drift, each
\* predicted wake differing from the one before.
C30_Witness ==
    /\ Returns("generatePredictions")
    /\ predictionDays = MaxPredictionDays
    /\ Len(call.ret) = MaxPredictionDays
    /\ Len(VisibleMainSleeps) >= 2
    /\ calculateDrift(VisibleMainSleeps).sleepDrift.num # 0
    /\ \A k \in 2..Len(call.ret) : call.ret[k].wake > call.ret[k - 1].wake

====
